---- MODULE Spec2Model ----
(***************************************************************************)
(* Model of src/chat.py: a prompt_toolkit terminal chat client.            *)
(*                                                                         *)
(* Threads.  The asyncio event loop runs the key-binding handlers and the  *)
(* two synchronous segments of every handle_send task (before and after    *)
(* its single await).  call_chat runs on a thread of the loop's default    *)
(* executor, one thread per outstanding send, and is modelled step by step *)
(* at the places where it touches the shared list chatContent.             *)
(*                                                                         *)
(* Quit.  app.exit() ends the handling of keys; the loop still runs the    *)
(* tasks that are ready until app.run() returns (AppStop), and the process *)
(* ends when the executor threads have finished (ProcessExit).             *)
(*                                                                         *)
(* Text.  A text is a sequence of atoms; an atom is one character, or one  *)
(* fixed piece of an f-string (a label, a separator line) that contains no *)
(* newline.  Cursor positions are 0-based indexes 0..Len(text).            *)
(***************************************************************************)
EXTENDS Integers, Sequences, FiniteSets, TLC

\* ------------------------------------------------------------------ bounds
MaxSends == 2
MaxEvents == 5

\* ------------------------------------------------------- program constants
\* buf.cursor_down(count=10**6)
ScrollCount == 1000000

NL == "\n"
SP == " "
Whitespace == {NL, SP}
\* keys that self-insert into the focused buffer
InputChars == {"a", SP}
\* texts the completion service may answer with, and messages of exceptions
Replies == {<<"hi">>}
Errors == {<<"boom">>}
\* message of the exception raised by the import or by OpenAI() when the
\* environment lacks the package or the key
SetupError == <<"no api key">>

YouLabel == "> [You]:"
Separator == "------"
Fill == "~"

Tasks == 1..MaxSends
WorkerPcs == {"w_begin", "w_append", "w_create", "w_wait"}

VARIABLES
    inText,      \* input_area.text
    inCursor,    \* input_area.buffer.cursor_position
    outText,     \* output_area.text
    outCursor,   \* output_area.buffer.cursor_position
    status,      \* status.text: "Ready" or "Thinking..."
    focus,       \* the focused area
    chatContent, \* the module-level list
    envOK,       \* the openai package imports and OPENAI_API_KEY is set
    exited,      \* app.exit() has been called
    stopped,     \* app.run() has returned: the background tasks are cancelled
    terminated,  \* the process has ended
    nTasks,      \* number of handle_send tasks created so far
    pc,          \* position of each send
    prompt,      \* handle_send's local prompt
    seenLen,     \* len(chatContent) as evaluated by the send's call_chat
    payload,     \* messages serialised into the send's request
    response,    \* call_chat's return value
    outcome,     \* "none", "ok" (create returned) or "raised"
    overlap,     \* history: another call was outstanding when the send began
    nEvents,     \* number of key and mouse-wheel events so far
    disturbed    \* history: a user event other than composing and
                 \* submitting the first prompt has happened

vars == <<inText, inCursor, outText, outCursor, status, focus, chatContent,
          envOK, exited, stopped, terminated, nTasks, pc, prompt, seenLen,
          payload, response, outcome, overlap, nEvents, disturbed>>

\* ------------------------------------------------------------ text helpers
\* str.strip(): drop leading and trailing whitespace
RECURSIVE lstrip(_)
lstrip(s) ==
    IF s # <<>> /\ Head(s) \in Whitespace THEN lstrip(Tail(s)) ELSE s

RECURSIVE rstrip(_)
rstrip(s) ==
    IF s # <<>> /\ s[Len(s)] \in Whitespace
    THEN rstrip(SubSeq(s, 1, Len(s) - 1))
    ELSE s

\* variant: the input is used as typed, without .strip()
strip_none(s) == s

strip(s) == rstrip(lstrip(s))

\* Document._line_start_indexes: index 0 and the index after every newline
line_start_indexes(text) ==
    <<0>> \o SelectSeq([i \in 1..Len(text) |-> i], LAMBDA i : text[i] = NL)

\* Document.line_count
line_count(text) == 1 + Cardinality({i \in 1..Len(text) : text[i] = NL})

line_start(text, row) == line_start_indexes(text)[row + 1]

line_len(text, row) ==
    IF row + 1 < line_count(text)
    THEN line_start(text, row + 1) - 1 - line_start(text, row)
    ELSE Len(text) - line_start(text, row)

\* Document.cursor_position_row / cursor_position_col
cursor_position_row(text, cur) ==
    Cardinality({i \in 1..cur : text[i] = NL})

cursor_position_col(text, cur) ==
    cur - line_start(text, cursor_position_row(text, cur))

\* max(lo, min(x, hi))
clamp(x, lo, hi) == IF x < lo THEN lo ELSE IF x > hi THEN hi ELSE x

\* Document.translate_row_col_to_index, for a row of the document:
\*   result = line start + max(0, min(col, len(line)))
\*   result = max(0, min(result, len(text)))
index_in_row(text, r, col) ==
    CHOOSE result \in
        {clamp(s + clamp(col, 0, l), 0, Len(text)) :
            s \in {line_start(text, r)}, l \in {line_len(text, r)}} : TRUE

\* Document.translate_row_col_to_index: a row before the first line is the
\* first line, a row after the last line is the last line
translate_row_col_to_index(text, row, col) ==
    CHOOSE result \in
        {index_in_row(text, clamp(r, 0, line_count(text) - 1), c) :
            r \in {row}, c \in {col}} : TRUE

\* variant: append_output without its cursor_down call
cursor_down_none(text, cur, count) == cur

\* Buffer.cursor_down(count): the column is kept where the line allows
cursor_down(text, cur, count) ==
    translate_row_col_to_index(text,
        cursor_position_row(text, cur) + count,
        cursor_position_col(text, cur))

\* BufferControl.move_cursor_up, called by the window on a wheel-up event:
\* the target row is max(0, row - count)
cursor_up(text, cur, count) ==
    translate_row_col_to_index(text,
        clamp(cursor_position_row(text, cur) - count, 0, Len(text)),
        cursor_position_col(text, cur))

\* Buffer.insert_text(data): insert at the cursor
insert_text(text, cur, data) ==
    SubSeq(text, 1, cur) \o data \o SubSeq(text, cur + 1, Len(text))

\* variant: the text is assigned to the buffer instead of inserted
append_output_replace(text, cur, ansi_text) == <<ansi_text, Len(ansi_text)>>

\* append_output(ansi_text): the pair <<text, cursor>> it leaves
append_output(text, cur, ansi_text) ==
    CHOOSE after \in
        {<<t2, cursor_down(t2, c2, ScrollCount)>> :
            t2 \in {insert_text(text, cur, ansi_text)},
            c2 \in {cur + Len(ansi_text)}} : TRUE

\* md_to_ansi: the styled rendering, filled to the console width, and the
\* newline Console.print ends with
md_to_ansi(text) == text \o <<Fill, NL>>

\* the f-string of handle_send's first append_output
EchoText(p) == <<NL, YouLabel, SP>> \o p \o <<NL>>

\* the f-string of handle_send's second append_output
BlockText(r) == <<Separator, NL>> \o md_to_ansi(r) \o <<NL, Separator, NL>>

\* variant: the except branch returns the bare message
ErrorReturnBare(err) == err

\* call_chat's except branch
ErrorReturn(err) == <<"OpenAI error: ">> \o err

\* variant: only the newest message is sent
asRequestPayloadLast(cc) == IF cc = <<>> THEN cc ELSE <<cc[Len(cc)]>>

\* messages=chatContent
asRequestPayload(cc) == cc

\* call_chat called on the loop's own thread: the loop handles nothing
\* until the call has returned
LoopBlockedByCall ==
    ~exited /\ \A t \in DOMAIN pc : pc[t] \notin WorkerPcs

\* await loop.run_in_executor(None, call_chat, ...): the call runs on an
\* executor thread, so the loop handles key and mouse events for as long as
\* the application has not exited (the key processor stops at app.exit())
LoopRunning == ~exited

\* app.exit() only sets the result of the application's future.  The loop
\* goes on running what is ready, tasks included, until app.run() has woken
\* up, which ends with the cancellation of the background tasks.
TasksAlive == ~stopped

\* ------------------------------------------------------------------- Init
Init ==
    /\ inText = <<>>
    /\ inCursor = 0
    /\ outText = <<>>
    /\ outCursor = 0
    /\ status = "Ready"
    /\ focus = "input"
    /\ chatContent = <<>>
    /\ envOK \in BOOLEAN
    /\ exited = FALSE
    /\ stopped = FALSE
    /\ terminated = FALSE
    /\ nTasks = 0
    /\ pc = [t \in Tasks |-> "none"]
    /\ prompt = [t \in Tasks |-> <<>>]
    /\ seenLen = [t \in Tasks |-> 0]
    /\ payload = [t \in Tasks |-> <<>>]
    /\ response = [t \in Tasks |-> <<>>]
    /\ outcome = [t \in Tasks |-> "none"]
    /\ overlap = [t \in Tasks |-> FALSE]
    /\ nEvents = 0
    /\ disturbed = FALSE

taskVars == <<nTasks, pc, prompt, seenLen, payload, response, outcome, overlap>>
outVars == <<outText, outCursor>>
exitVars == <<stopped, terminated>>

\* ------------------------------------------------------------ key events
\* The input area has the focus from pre_run on and nothing moves it: no
\* key is bound to a focus change and the output area does not take the
\* focus on a click.  Keys therefore edit the input buffer only.
\* a self-inserting key
TypeChar(c) ==
    /\ LoopRunning
    /\ nEvents < MaxEvents
    /\ nEvents' = nEvents + 1
    /\ inText' = insert_text(inText, inCursor, <<c>>)
    /\ inCursor' = inCursor + 1
    /\ disturbed' = (disturbed \/ nTasks > 0)
    /\ UNCHANGED <<outVars, status, focus, chatContent, envOK, exited,
                   taskVars>>
    /\ UNCHANGED exitVars

\* the left-arrow key in the input buffer
CursorLeft ==
    /\ LoopRunning
    /\ nEvents < MaxEvents
    /\ nEvents' = nEvents + 1
    /\ inCursor > 0
    /\ inCursor' = inCursor - 1
    /\ disturbed' = (disturbed \/ nTasks > 0)
    /\ UNCHANGED <<inText, outVars, status, focus, chatContent, envOK, exited,
                   taskVars>>
    /\ UNCHANGED exitVars

\* the newline is inserted and a send task is created as well
newline_submit ==
    /\ LoopRunning
    /\ nTasks < MaxSends
    /\ nEvents < MaxEvents
    /\ nEvents' = nEvents + 1
    /\ inText' = insert_text(inText, inCursor, <<NL>>)
    /\ inCursor' = inCursor + 1
    /\ nTasks' = nTasks + 1
    /\ pc' = [pc EXCEPT ![nTasks + 1] = "start"]
    /\ disturbed' = (disturbed \/ nTasks > 0)
    /\ UNCHANGED <<outVars, status, focus, chatContent, envOK, exited,
                   prompt, seenLen, payload, response, outcome, overlap>>
    /\ UNCHANGED exitVars

\* @kb.add("escape", "enter")
newline ==
    /\ LoopRunning
    /\ nEvents < MaxEvents
    /\ nEvents' = nEvents + 1
    /\ inText' = insert_text(inText, inCursor, <<NL>>)
    /\ inCursor' = inCursor + 1
    /\ disturbed' = (disturbed \/ nTasks > 0)
    /\ UNCHANGED <<outVars, status, focus, chatContent, envOK, exited,
                   taskVars>>
    /\ UNCHANGED exitVars

\* a single-flight Enter: the sends still in flight are cancelled
submit_cancel ==
    /\ LoopRunning
    /\ nTasks < MaxSends
    /\ nEvents < MaxEvents
    /\ nEvents' = nEvents + 1
    /\ nTasks' = nTasks + 1
    /\ pc' = [t \in Tasks |->
                IF t = nTasks + 1 THEN "start"
                ELSE IF pc[t] \in WorkerPcs \cup {"resume"} THEN "cancelled"
                ELSE pc[t]]
    /\ disturbed' = (disturbed \/ nTasks > 0)
    /\ UNCHANGED <<inText, inCursor, outVars, status, focus, chatContent,
                   envOK, exited, prompt, seenLen, payload, response, outcome,
                   overlap>>
    /\ UNCHANGED exitVars

\* @kb.add("enter"): create_background_task(handle_send())
submit ==
    /\ LoopRunning
    /\ nTasks < MaxSends
    /\ nEvents < MaxEvents
    /\ nEvents' = nEvents + 1
    /\ nTasks' = nTasks + 1
    /\ pc' = [pc EXCEPT ![nTasks + 1] = "start"]
    /\ disturbed' = (disturbed \/ nTasks > 0)
    /\ UNCHANGED <<inText, inCursor, outVars, status, focus, chatContent,
                   envOK, exited, prompt, seenLen, payload, response, outcome,
                   overlap>>
    /\ UNCHANGED exitVars

\* @kb.add("c-c"): app.exit()
quit_ ==
    /\ LoopRunning
    /\ exited' = TRUE
    /\ UNCHANGED <<inText, inCursor, outVars, status, focus, chatContent,
                   envOK, taskVars, nEvents, disturbed>>
    /\ UNCHANGED exitVars

\* mouse wheel over the output window (mouse_support=True): the window
\* scrolls and, with the cursor on its edge row, moves the buffer's cursor
\* one line.  The window's height is not modelled: a wheel event may move
\* the cursor whenever there is a line to move to.
ScrollUp ==
    /\ LoopRunning
    /\ nEvents < MaxEvents
    /\ cursor_position_row(outText, outCursor) > 0
    /\ outCursor' = cursor_up(outText, outCursor, 1)
    /\ nEvents' = nEvents + 1
    /\ disturbed' = TRUE
    /\ UNCHANGED <<inText, inCursor, outText, status, focus, chatContent,
                   envOK, exited, taskVars>>
    /\ UNCHANGED exitVars

ScrollDown ==
    /\ LoopRunning
    /\ nEvents < MaxEvents
    /\ cursor_position_row(outText, outCursor) + 1 < line_count(outText)
    /\ outCursor' = cursor_down(outText, outCursor, 1)
    /\ nEvents' = nEvents + 1
    /\ disturbed' = TRUE
    /\ UNCHANGED <<inText, inCursor, outText, status, focus, chatContent,
                   envOK, exited, taskVars>>
    /\ UNCHANGED exitVars

\* app.run() returns: run_async wakes up on the result set by app.exit()
\* and cancels the background tasks that have not finished
AppStop ==
    /\ exited
    /\ ~stopped
    /\ stopped' = TRUE
    /\ UNCHANGED <<inText, inCursor, outVars, status, focus, chatContent,
                   envOK, exited, terminated, taskVars, nEvents, disturbed>>

\* the end of the script: the interpreter joins the threads of the loop's
\* default executor before the process ends, so it ends once no call_chat
\* is running
ProcessExit ==
    /\ stopped
    /\ ~terminated
    /\ \A t \in Tasks : pc[t] \notin WorkerPcs
    /\ terminated' = TRUE
    /\ UNCHANGED <<inText, inCursor, outVars, status, focus, chatContent,
                   envOK, exited, stopped, taskVars, nEvents, disturbed>>

\* ------------------------------------------------------------ handle_send
\* first segment: from the task's first step to the await
HandleSendStart(t) ==
    /\ TasksAlive
    /\ pc[t] = "start"
    /\ \A u \in Tasks : u < t => pc[u] # "start"
    /\ LET p == strip(inText) IN
       IF p = <<>>
       THEN /\ pc' = [pc EXCEPT ![t] = "noop"]
            /\ UNCHANGED <<inText, inCursor, outVars, status, prompt, overlap>>
       ELSE /\ inText' = <<>>
            /\ inCursor' = 0
            /\ \E after \in {append_output(outText, outCursor, EchoText(p))} :
                  /\ outText' = after[1]
                  /\ outCursor' = after[2]
            /\ status' = "Thinking..."
            /\ prompt' = [prompt EXCEPT ![t] = p]
            /\ overlap' = [overlap EXCEPT
                              ![t] = \E u \in Tasks : pc[u] \in WorkerPcs]
            /\ pc' = [pc EXCEPT ![t] = "w_begin"]
    /\ UNCHANGED <<focus, chatContent, envOK, exited, nTasks, seenLen, payload,
                   response, outcome, nEvents, disturbed>>
    /\ UNCHANGED exitVars

\* the second segment resets the input area as well
HandleSendResumeClear(t) ==
    /\ TasksAlive
    /\ pc[t] = "resume"
    /\ pc' = [pc EXCEPT ![t] = "done"]
    /\ \E after \in {append_output(outText, outCursor,
                                    BlockText(response[t]))} :
          /\ outText' = after[1]
          /\ outCursor' = after[2]
    /\ status' = "Ready"
    /\ focus' = "input"
    /\ inText' = <<>>
    /\ inCursor' = 0
    /\ UNCHANGED <<chatContent, envOK, exited, nTasks, prompt, seenLen,
                   payload, response, outcome, overlap, nEvents, disturbed>>
    /\ UNCHANGED exitVars

\* second segment: after the await
HandleSendResume(t) ==
    /\ TasksAlive
    /\ pc[t] = "resume"
    /\ pc' = [pc EXCEPT ![t] = "done"]
    /\ \E after \in {append_output(outText, outCursor,
                                    BlockText(response[t]))} :
          /\ outText' = after[1]
          /\ outCursor' = after[2]
    /\ status' = "Ready"
    /\ focus' = "input"
    /\ UNCHANGED <<inText, inCursor, chatContent, envOK, exited, nTasks,
                   prompt, seenLen, payload, response, outcome, overlap,
                   nEvents, disturbed>>
    /\ UNCHANGED exitVars

\* -------------------------------------------- call_chat, on a worker thread
\* the import, the client, and the evaluation of len(chatContent)
WorkerBegin(t) ==
    /\ pc[t] = "w_begin"
    /\ IF envOK
       THEN /\ seenLen' = [seenLen EXCEPT ![t] = Len(chatContent)]
            /\ pc' = [pc EXCEPT ![t] = "w_append"]
            /\ UNCHANGED <<response, outcome>>
       ELSE /\ response' = [response EXCEPT ![t] = ErrorReturn(SetupError)]
            /\ outcome' = [outcome EXCEPT ![t] = "raised"]
            /\ pc' = [pc EXCEPT ![t] = "resume"]
            /\ UNCHANGED seenLen
    /\ UNCHANGED <<inText, inCursor, outVars, status, focus, chatContent,
                   envOK, exited, nTasks, prompt, payload, overlap, nEvents,
                   disturbed>>
    /\ UNCHANGED exitVars

\* the message goes in at the front of the list
WorkerAppendFront(t) ==
    /\ pc[t] = "w_append"
    /\ chatContent' = <<[role |-> "user", content |-> prompt[t],
                         promptID |-> seenLen[t] + 1]>> \o chatContent
    /\ pc' = [pc EXCEPT ![t] = "w_create"]
    /\ UNCHANGED <<inText, inCursor, outVars, status, focus, envOK, exited,
                   nTasks, prompt, seenLen, payload, response, outcome, overlap,
                   nEvents, disturbed>>
    /\ UNCHANGED exitVars

\* chatContent.append({...})
WorkerAppend(t) ==
    /\ pc[t] = "w_append"
    /\ chatContent' = Append(chatContent,
           [role |-> "user", content |-> prompt[t],
            promptID |-> seenLen[t] + 1])
    /\ pc' = [pc EXCEPT ![t] = "w_create"]
    /\ UNCHANGED <<inText, inCursor, outVars, status, focus, envOK, exited,
                   nTasks, prompt, seenLen, payload, response, outcome, overlap,
                   nEvents, disturbed>>
    /\ UNCHANGED exitVars

\* client.chat.completions.create(...): the request is serialised and sent
WorkerCreate(t) ==
    /\ pc[t] = "w_create"
    /\ payload' = [payload EXCEPT ![t] = asRequestPayload(chatContent)]
    /\ pc' = [pc EXCEPT ![t] = "w_wait"]
    /\ UNCHANGED <<inText, inCursor, outVars, status, focus, chatContent,
                   envOK, exited, nTasks, prompt, seenLen, response, outcome,
                   overlap, nEvents, disturbed>>
    /\ UNCHANGED exitVars

\* the call returns a reply, or raises and the except branch returns
WorkerReturn(t) ==
    /\ pc[t] = "w_wait"
    /\ \/ \E r \in Replies :
            /\ response' = [response EXCEPT ![t] = r]
            /\ outcome' = [outcome EXCEPT ![t] = "ok"]
       \/ \E e \in Errors :
            /\ response' = [response EXCEPT ![t] = ErrorReturn(e)]
            /\ outcome' = [outcome EXCEPT ![t] = "raised"]
    /\ pc' = [pc EXCEPT ![t] = "resume"]
    /\ UNCHANGED <<inText, inCursor, outVars, status, focus, chatContent,
                   envOK, exited, nTasks, prompt, seenLen, payload, overlap,
                   nEvents, disturbed>>
    /\ UNCHANGED exitVars

\* ------------------------------------------------------------------- Next
Next ==
    \/ \E c \in InputChars : TypeChar(c)
    \/ CursorLeft
    \/ newline
    \/ submit
    \/ quit_
    \/ AppStop
    \/ ProcessExit
    \/ ScrollUp
    \/ ScrollDown
    \/ \E t \in Tasks : HandleSendStart(t)
    \/ \E t \in Tasks : HandleSendResume(t)
    \/ \E t \in Tasks : WorkerBegin(t)
    \/ \E t \in Tasks : WorkerAppend(t)
    \/ \E t \in Tasks : WorkerCreate(t)
    \/ \E t \in Tasks : WorkerReturn(t)

Spec == Init /\ [][Next]_vars

\* Scheduling.  An executor thread that can take its next step takes it, the
\* completion call returns (with a reply or an exception), and the loop runs
\* the tasks that are ready: while some send can move on, some send does.
SendProgress ==
    \E t \in Tasks :
        \/ WorkerBegin(t)
        \/ WorkerAppend(t)
        \/ WorkerCreate(t)
        \/ WorkerReturn(t)
        \/ HandleSendResume(t)

Fairness == WF_vars(SendProgress)

FairSpec == Spec /\ Fairness

\* ---------------------------------------------------------------- claims
started(t) == pc[t] \in WorkerPcs \cup {"resume", "done"}
IsBlank(s) == \A i \in 1..Len(s) : s[i] \in Whitespace
IsPrefix(s, t) == Len(s) <= Len(t) /\ SubSeq(t, 1, Len(s)) = s
\* the step is taken by the worker thread of some send
WorkerStep == \E t \in Tasks : pc[t] \in WorkerPcs /\ pc'[t] # pc[t]

\* C1: every send whose trimmed input is non-empty has added its user
\* message to the transcript by the time it suspends, and one more message
\* once its completion has resolved and been rendered: two per completed send.
C1_TwoEntriesPerSend ==
    LET S == Cardinality({t \in Tasks : started(t)})
        R == Cardinality({t \in Tasks : pc[t] = "resume"})
        D == Cardinality({t \in Tasks : pc[t] = "done"})
    IN  /\ S + D <= Len(chatContent)
        /\ Len(chatContent) <= S + D + R

\* C2: the promptIDs of the transcript are strictly increasing in append
\* order (so no two entries share one), also when sends overlap.
C2_IdsStrictlyIncreasing ==
    \A i, j \in 1..Len(chatContent) :
        i < j => chatContent[i].promptID < chatContent[j].promptID

\* C3: a handle_send that reads an empty or whitespace-only input returns
\* at once: transcript, output viewport, status and input are unchanged, no
\* other send is affected, and no completion call is ever dispatched for it.
C3_BlankSubmitIsNoOp ==
    [][\A t \in Tasks :
        /\ (pc[t] = "start" /\ pc'[t] # "start" /\ IsBlank(inText))
              => /\ pc'[t] = "noop"
                 /\ UNCHANGED <<chatContent, outText, outCursor, status,
                                inText, inCursor, focus, payload>>
                 /\ \A u \in Tasks \ {t} : pc'[u] = pc[u]
        /\ pc[t] = "noop" => pc'[t] = "noop"]_vars

\* a whitespace-only submit was a no-op while an earlier send was awaiting
C3_Witness ==
    \E t, u \in Tasks :
        /\ pc[t] = "noop" /\ pc[u] \in WorkerPcs
        /\ inText # <<>> /\ IsBlank(inText)

\* C4: once two overlapping sends have both completed, the transcript has
\* grown by four entries.
C4_TwoOverlappingSendsAddFour ==
    \A t, u \in Tasks :
        (/\ envOK
         /\ t # u /\ overlap[u]
         /\ pc[t] = "done" /\ pc[u] = "done"
         /\ \A v \in Tasks \ {t, u} : pc[v] = "none")
            => Len(chatContent) = 4

\* a failed call has returned the formatted text and its send is resumable
C5_State ==
    \A t \in Tasks : outcome[t] = "raised" =>
        /\ \E e \in Errors \cup {SetupError} :
               response[t] = <<"OpenAI error: ">> \o e
        /\ pc[t] \in {"resume", "done"}
        /\ (pc[t] = "resume" /\ ~exited) => ENABLED HandleSendResume(t)

\* resuming a send whose call failed renders the text like a reply
C5_Step ==
    \A t \in Tasks :
        (pc[t] = "resume" /\ pc'[t] # "resume" /\ outcome[t] = "raised") =>
            /\ pc'[t] = "done"
            /\ outText' = insert_text(outText, outCursor,
                   <<Separator, NL>> \o response[t]
                       \o <<Fill, NL, NL, Separator, NL>>)
            /\ status' = "Ready"
            /\ focus' = "input"

\* C5: a completion call that raises returns "OpenAI error: <message>" as an
\* ordinary value; the send is then resumable exactly like a successful one,
\* and its resumption appends the error text between separators, sets the
\* status to Ready and focuses the input.  No failed call leaves its send
\* awaiting.
C5_FailureIsRenderedAsReply == []C5_State /\ [][C5_Step]_vars

\* a failed call has been rendered
C5_Witness ==
    \E t \in Tasks : outcome[t] = "raised" /\ pc[t] = "done" /\ envOK

\* C6: every append_output leaves the output cursor at the end of the
\* content, wherever the cursor was before (the output text changes only
\* through append_output).
C6_CursorAtEndAfterAppend ==
    [][outText' # outText => outCursor' = Len(outText')]_vars

\* a response block was inserted above the echoed prompt, after the user
\* had scrolled the output up, and the cursor is at the end
C6_Witness ==
    /\ Len(outText) > 2
    /\ outText[2] = Separator
    /\ outCursor = Len(outText)

\* C7: a single non-empty submit with no other user action shows
\* "Thinking..." from the moment the send begins, and once the completion
\* has resolved and been rendered the output is the echoed prompt under the
\* You label followed by the response block, the status is Ready and the
\* input is empty and focused.
C7_SingleSendCycle ==
    (nTasks = 1 /\ ~disturbed) =>
        /\ pc[1] \in WorkerPcs \cup {"resume"} =>
              /\ status = "Thinking..."
              /\ outText = <<NL, YouLabel, SP>> \o prompt[1] \o <<NL>>
        /\ pc[1] = "done" =>
              /\ outcome[1] \in {"ok", "raised"}
              /\ outText = <<NL, YouLabel, SP>> \o prompt[1] \o <<NL>>
                     \o <<Separator, NL>> \o response[1]
                     \o <<Fill, NL, NL, Separator, NL>>
              /\ status = "Ready"
              /\ inText = <<>>
              /\ focus = "input"

C7_Witness ==
    nTasks = 1 /\ ~disturbed /\ pc[1] = "done" /\ outcome[1] = "ok"

\* C8: while a completion call is outstanding and the application has not
\* quit, the key events are enabled (as far as the bounds on events and
\* sends allow another event).
C8_KeysHandledWhileAwaiting ==
    ((\E t \in Tasks : pc[t] \in WorkerPcs) /\ ~exited) =>
        /\ ENABLED quit_
        /\ nEvents < MaxEvents =>
              /\ \A c \in InputChars : ENABLED TypeChar(c)
              /\ ENABLED newline
              /\ nTasks < MaxSends => ENABLED submit

\* text typed while the only send's request was in flight
C8_Witness ==
    nTasks = 1 /\ pc[1] = "w_wait" /\ inText # <<>> /\ ~exited

\* C9: no step of a worker thread changes the viewports, the status, the
\* focus or the transcript.
C9_OnlyLoopMutatesSharedState ==
    [][WorkerStep =>
          UNCHANGED <<chatContent, outText, outCursor, inText, inCursor,
                      status, focus>>]_vars

\* C10: the request a send issues carries the whole transcript as it stands
\* at that moment, in append order, and so stays a prefix of the transcript.
C10_RequestCarriesWholeTranscript ==
    [][\A t \in Tasks :
        /\ (pc[t] = "w_create" /\ pc'[t] # "w_create")
              => payload'[t] = chatContent
        /\ pc'[t] \in {"w_wait", "resume", "done"} /\ envOK
              => /\ IsPrefix(payload'[t], chatContent')
                 /\ \E i \in 1..Len(payload'[t]) :
                        payload'[t][i].content = prompt'[t]]_vars

\* the request of a later send carries the message of an earlier send whose
\* call had failed
C10_Witness ==
    \E t, u \in Tasks :
        /\ outcome[t] = "raised" /\ pc[u] = "w_wait"
        /\ Len(payload[u]) = 2
        /\ payload[u][1].content = prompt[t]

\* C11: the transcript is append-only: at every step the transcript before
\* the step is a prefix of the transcript after it, so no entry is ever
\* removed, modified or reordered.
C11_TranscriptAppendOnly ==
    [][IsPrefix(chatContent, chatContent')]_vars

\* a second message was appended behind the message of a rendered send
C11_Witness ==
    \E t \in Tasks :
        /\ pc[t] = "done"
        /\ Len(chatContent) = 2
        /\ chatContent[1].content = prompt[t]

\* C12: the step that inserts a newline into the input (Alt+Enter) puts it
\* at the cursor and does not submit: it creates no send task, moves no
\* send, and leaves the transcript, the output viewport, the status and the
\* focus unchanged.
C12_NewlineDoesNotSubmit ==
    [][(Len(inText') = Len(inText) + 1 /\ inText'[inCursor + 1] = NL) =>
          /\ inText' = insert_text(inText, inCursor, <<NL>>)
          /\ inCursor' = inCursor + 1
          /\ nTasks' = nTasks
          /\ pc' = pc
          /\ UNCHANGED <<chatContent, outText, outCursor, status, focus,
                         payload>>]_vars

\* a newline stands between two typed characters and nothing was submitted
C12_Witness ==
    /\ Len(inText) = 3
    /\ inText[2] = NL
    /\ inText[1] \notin Whitespace
    /\ inText[3] \notin Whitespace
    /\ nTasks = 0
    /\ status = "Ready"
    /\ outText = <<>>

\* a send that is awaiting or resumable stays so until it is rendered, and
\* the step that finishes it appends its response block and resets the status
C13_Step ==
    \A t \in Tasks :
        /\ pc[t] \in WorkerPcs \cup {"resume"}
              => pc'[t] \in WorkerPcs \cup {"resume", "done"}
        /\ (pc[t] = "resume" /\ pc'[t] = "done")
              => /\ outText' = insert_text(outText, outCursor,
                                    BlockText(response[t]))
                 /\ status' = "Ready"

C14_AppendAtEnd ==
    [][outText' # outText => IsPrefix(outText, outText')]_vars

\* C15: Ctrl+C can be pressed in any state before the quit; once it has
\* been handled no send appends to the output or changes the status, and
\* the application ends without waiting for an outstanding completion call:
\* after the quit it can always take its next step towards the end of the
\* process.
C15_QuitAbandonsSends ==
    /\ [](~exited => ENABLED quit_)
    /\ []((exited /\ ~terminated) => (ENABLED AppStop \/ ENABLED ProcessExit))
    /\ [][exited => UNCHANGED <<outText, outCursor, status>>]_vars

\* a send is awaiting its completion: its call is running, or has returned
\* and the task has not been resumed yet
awaiting(t) == pc[t] \in WorkerPcs \cup {"resume"}

\* C16: the status reads "Thinking..." in every state in which at least one
\* send is awaiting its completion, and "Ready" only when none is (stated
\* for an environment in which the client can be created, so that every
\* call is a request to the service).
C16_StatusTracksOutstanding ==
    envOK =>
        /\ (\E t \in Tasks : awaiting(t)) => status = "Thinking..."
        /\ status = "Ready" => \A t \in Tasks : ~awaiting(t)

\* the send's call_chat has appended its message
appended(t) == envOK /\ pc[t] \in {"w_create", "w_wait", "resume", "done"}

\* C17: user messages stand in the transcript in the order in which their
\* prompts were echoed.  Tasks begin in the order of their creation, so the
\* prompt of send t is echoed before that of every later send u; with two
\* different prompts, the message of t then precedes the message of u.
C17_TranscriptInEchoOrder ==
    \A t, u \in Tasks :
        (t < u /\ appended(t) /\ appended(u) /\ prompt[t] # prompt[u]) =>
            \E i, j \in 1..Len(chatContent) :
                /\ i < j
                /\ chatContent[i].content = prompt[t]
                /\ chatContent[j].content = prompt[u]

\* C18: the request issued for a send ends with that send's own message:
\* the last message of its payload carries its prompt and the promptID its
\* call_chat computed, so no message of a later send is in it.
C18_RequestEndsWithOwnPrompt ==
    \A t \in Tasks :
        (envOK /\ pc[t] \in {"w_wait", "resume", "done"}) =>
            /\ payload[t] # <<>>
            /\ payload[t][Len(payload[t])].content = prompt[t]
            /\ payload[t][Len(payload[t])].promptID = seenLen[t] + 1

\* C19: the step that renders a send and returns it to idle changes the
\* output, the status and the focus only: the input text and its cursor,
\* and so whatever was typed while the send was awaiting, are left as they
\* are.  The input is emptied only by the first segment of a send, which
\* consumes it as its prompt.
C19_TypedTextSurvivesCompletion ==
    [][/\ \A t \in Tasks :
            (pc[t] = "resume" /\ pc'[t] = "done") =>
                UNCHANGED <<inText, inCursor, chatContent, nTasks, prompt>>
       /\ (inText # <<>> /\ inText' = <<>>) =>
              \E t \in Tasks :
                  /\ pc[t] = "start" /\ pc'[t] = "w_begin"
                  /\ prompt'[t] = strip(inText)]_vars

\* the only send has been rendered and the text typed while it was awaiting
\* is still in the input
C19_Witness ==
    /\ nTasks = 1
    /\ pc[1] = "done"
    /\ inText # <<>>
    /\ ~IsBlank(inText)

====
